---- MODULE Spec2Model ----
(***************************************************************************)
(* A model of src/communicate.py: the DataLake class, a wrapper around the *)
(* provider's S3, IAM and Transfer clients and a paramiko SFTP session.    *)
(*                                                                         *)
(* The instance fields (server_id, client, sftp) are the program state;    *)
(* the provider's stores (buckets, policies, roles, servers) are the       *)
(* environment the methods talk to.  Every method is one action, except    *)
(* establish_sftp, whose polling loop is a sequence of steps (pc).  Each   *)
(* call leaves behind the record of what it returned or raised (call) and  *)
(* the requests it issued with the provider's answers (reqs).              *)
(***************************************************************************)
EXTENDS Integers, Sequences, FiniteSets, TLC

VARIABLES
    server_id,    \* self.server_id
    client,       \* self.client
    sftp,         \* self.sftp: <<>> (None) or <<host, "open" | "closed">>
    pc,           \* position of the running establish_sftp call, or "idle"
    est,          \* frame of the latest establish_sftp call (its locals)
    nServers,     \* provider: number of transfer servers created so far
    onlineAt,     \* provider: the status poll that first reports ONLINE
    buckets,      \* provider: the bucket listing
    policies,     \* provider: the policy listing
    roles,        \* provider: the role names
    lastCreated,  \* history: id returned by the latest successful create_server
    firstPair,    \* history: policy name -> pair returned when it was created
    call,         \* the latest call: [op, args, ret, exc]
    reqs          \* requests issued by the latest call, with the answers

vars == <<server_id, client, sftp, pc, est, nServers, onlineAt, buckets,
          policies, roles, lastCreated, firstPair, call, reqs>>

fields == <<server_id, client, sftp>>

----------------------------------------------------------------------------
(* Bounds of the model. *)

MaxServers == 2     \* servers the provider creates
MaxPolls == 2       \* latest status poll at which a server comes online
MaxBuckets == 2     \* length of a bucket name list, size of the bucket listing
MaxPolicies == 3    \* size of the provider's policy store
PageSize == 2       \* entries of the policy store one list_policies call returns
MaxArns == 2        \* length of the policies_arn list

----------------------------------------------------------------------------
(* Python values. *)

None == "None"
NoExc == "None"

Min(a, b) == IF a < b THEN a ELSE b

\* a call that returned `ret`
Returned(op, args, ret) == [op |-> op, args |-> args, ret |-> ret, exc |-> NoExc]
\* a call that raised `exc`
Raised(op, args, exc) == [op |-> op, args |-> args, ret |-> None, exc |-> exc]

\* a request sent through client `c`, and the provider's answer
Req(c, api, arg, resp) == [client |-> c, api |-> api, arg |-> arg, resp |-> resp]

\* the provider answers a request or raises a ClientError
Answers == {"ok", "ClientError"}

----------------------------------------------------------------------------
(* The clients.  boto3.client() yields an SDK client, whose attributes are *)
(* the provider's API; a caller (or a test that patches boto3.client) may  *)
(* also hand in a stand-in that answers the name establish_sftp polls.     *)

Clients == {"sdk", "dbl"}

TransferApi == {"start_server", "describe_server", "stop_server"}

Attrs(c) == IF c = "sdk" THEN TransferApi
            ELSE TransferApi \cup {"desrcribe_server"}

SrvId(n) == "s-" \o ToString(n)
ServerIds == {SrvId(n) : n \in 1..MaxServers}

EstIdle == [client |-> None, server_id |-> None, started |-> FALSE,
            polls |-> 0, server_status |-> None, opened |-> FALSE,
            closes |-> 0]

----------------------------------------------------------------------------
(* The names the callers use. *)

BucketNames == {"b1", "b2"}
PolicyNames == {"policy-" \o ToString(n) : n \in 1..MaxPolicies}
RoleNames == {"role-a", "role-b"}

\* the sequences over S of length at most n
SeqsUpTo(S, n) == UNION {[1..k -> S] : k \in 0..n}

----------------------------------------------------------------------------
Init ==
    /\ server_id = None
    /\ client = None
    /\ sftp = <<>>
    /\ pc = "idle"
    /\ est = EstIdle
    /\ nServers = 0
    /\ onlineAt = 1
    /\ buckets = <<>>
    /\ policies = <<>>
    /\ roles = {}
    /\ lastCreated = None
    /\ firstPair = [n \in PolicyNames |-> <<>>]
    /\ call = Returned("__init__", <<>>, None)
    /\ reqs = <<>>

----------------------------------------------------------------------------
(* Python's subscription obj[key] with a string key: a dict looks the key  *)
(* up, a list accepts only integers and slices.                            *)

PyDict(f) == [t |-> "dict", v |-> f]
PyList(s) == [t |-> "list", v |-> s]

GetItem(obj, key) ==
    IF obj.t = "dict"
    THEN IF key \in DOMAIN obj.v
         THEN [exc |-> NoExc, v |-> obj.v[key]]
         ELSE [exc |-> "KeyError", v |-> None]
    ELSE [exc |-> "TypeError", v |-> None]

----------------------------------------------------------------------------
(* 4.1 Bucket management *)

\* the provider refuses a bucket it already has, and one bucket too many
CreateBucketAnswers(b) ==
    IF (\E i \in 1..Len(buckets) : buckets[i] = b) \/ Len(buckets) >= MaxBuckets
    THEN {"ClientError"}
    ELSE Answers

\* lines 36-38: the handler of a ClientError
ReraiseClientError(b) == Raised("create_bucket", <<b>>, "ClientError")
OnCreateBucketError(b) == Returned("create_bucket", <<b>>, FALSE)

\* create_bucket, lines 23-39
CreateBucket(b, resp) ==
    /\ pc = "idle"
    /\ resp \in CreateBucketAnswers(b)
    /\ reqs' = <<Req("s3_client", "create_bucket", b, resp)>>
    /\ IF resp = "ok"
       THEN /\ buckets' = Append(buckets, b)
            /\ call' = Returned("create_bucket", <<b>>, TRUE)
       ELSE /\ call' = OnCreateBucketError(b)
            /\ UNCHANGED buckets
    /\ UNCHANGED <<server_id, client, sftp, pc, est, nServers, onlineAt, policies,
                   roles, lastCreated, firstPair>>

\* the answer of the provider's list_buckets: {'Buckets': [{'Name': ...}, ...]}
ListBucketsResponse ==
    PyDict([Buckets |-> PyList([i \in 1..Len(buckets) |->
                                    PyDict([Name |-> buckets[i]])])])

\* line 44: [name for name in response['Buckets']['Name']]
BucketNamesOf(response) ==
    LET bs == GetItem(response, "Buckets")
    IN  IF bs.exc # NoExc THEN bs
        ELSE LET ns == GetItem(bs.v, "Name")
             IN  IF ns.exc # NoExc THEN ns
                 ELSE [exc |-> NoExc, v |-> ns.v.v]

\* list_buckets, lines 41-44
ListBuckets(resp) ==
    /\ pc = "idle"
    /\ reqs' = <<Req("s3_client", "list_buckets", <<>>, resp)>>
    /\ call' = IF resp # "ok"
               THEN Raised("list_buckets", <<>>, "ClientError")
               ELSE LET r == BucketNamesOf(ListBucketsResponse)
                    IN  IF r.exc # NoExc
                        THEN Raised("list_buckets", <<>>, r.exc)
                        ELSE Returned("list_buckets", <<>>, r.v)
    /\ UNCHANGED <<server_id, client, sftp, pc, est, nServers, onlineAt, buckets,
                   policies, roles, lastCreated, firstPair>>

\* the sequence s without its i-th element
RemoveAt(s, i) == SubSeq(s, 1, i - 1) \o SubSeq(s, i + 1, Len(s))

\* delete_bucket, lines 46-48
DeleteBucket(b, resp) ==
    /\ pc = "idle"
    /\ resp = "ok" => \E i \in 1..Len(buckets) : buckets[i] = b
    /\ reqs' = <<Req("s3_client", "delete_bucket", b, resp)>>
    /\ IF resp = "ok"
       THEN /\ buckets' = RemoveAt(buckets, CHOOSE i \in 1..Len(buckets) : buckets[i] = b)
            /\ call' = Returned("delete_bucket", <<b>>, None)
       ELSE /\ call' = Raised("delete_bucket", <<b>>, "ClientError")
            /\ UNCHANGED buckets
    /\ UNCHANGED <<server_id, client, sftp, pc, est, nServers, onlineAt, policies,
                   roles, lastCreated, firstPair>>

----------------------------------------------------------------------------
(* 4.2 Access policy and role provisioning *)

PolicyArn(name) == "arn:aws:iam::123456789012:policy/" \o name
RoleArn(name) == "arn:aws:iam::123456789012:role/" \o name

\* json.dumps: the document travels as one serialized value
JsonDumps(doc) == [json |-> doc]

\* line 51
PrimaryWithSuffix(bucket_name_list) ==
    [i \in 1..Len(bucket_name_list) |-> "arn:aws:s3:::" \o bucket_name_list[i] \o "/*"]
primary_resource_list(bucket_name_list) ==
    [i \in 1..Len(bucket_name_list) |-> "arn:aws:s3:::" \o bucket_name_list[i]]

\* line 52
secondary_resource_list(bucket_name_list) ==
    [i \in 1..Len(bucket_name_list) |-> "arn:aws:s3:::" \o bucket_name_list[i] \o "/*"]

\* lines 53-71
Policy(bucket_name_list) ==
    [Version |-> "2012-10-17",
     Statement |-> <<
        [Sid |-> "AllowListingOfUserFolder",
         Effect |-> "Allow",
         Action |-> <<"s3:ListBucket", "s3:GetBucketLocation">>,
         Resource |-> primary_resource_list(bucket_name_list)],
        [Sid |-> "HomeDirAccess",
         Effect |-> "Allow",
         Action |-> <<"s3:PutObject", "s3:GetObject", "s3:DeleteObject",
                      "s3:DeleteObjectVersion", "s3:GetObjectVersion",
                      "s3:GetObjectACL", "s3:PutObjectACL">>,
         Resource |-> secondary_resource_list(bucket_name_list)] >>]

PolicyRecord(name) == [PolicyName |-> name, Arn |-> PolicyArn(name)]

HasPolicy(name) == \E i \in 1..Len(policies) : policies[i].PolicyName = name

\* the provider's answers to create_policy
CreatePolicyAnswers(name) ==
    {"AccessDenied"} \cup
        (IF HasPolicy(name) THEN {"EntityAlreadyExists"}
         ELSE IF Len(policies) >= MaxPolicies THEN {"LimitExceeded"}
         ELSE {"ok"})

\* the provider's answer to list_policies(): the first page of its listing
ListPolicies == SubSeq(policies, 1, Min(Len(policies), PageSize))

\* the sequence s with x inserted at position i
InsertAt(s, i, x) == SubSeq(s, 1, i - 1) \o <<x>> \o SubSeq(s, i, Len(s))

\* lines 79-83: the scan of the listing, from index i (counted from 0)
FirstListed(listing, policy_name, i) == [exc |-> NoExc, i |-> 0]
RECURSIVE ScanFrom(_, _, _)
ScanFrom(listing, policy_name, i) ==
    IF i >= Len(listing)
    THEN [exc |-> "IndexError", i |-> i]
    ELSE IF listing[i + 1].PolicyName # policy_name
    THEN ScanFrom(listing, policy_name, i + 1)
    ELSE [exc |-> NoExc, i |-> i]

\* create_iam_s3_access_policy, lines 50-87
CreateIamS3AccessPolicy(bucket_name_list, policy_name) ==
    /\ pc = "idle"
    /\ \E resp \in CreatePolicyAnswers(policy_name) :
        LET op == "create_iam_s3_access_policy"
            args == <<bucket_name_list, policy_name>>
            rq == Req("iam_client", "create_policy",
                      [PolicyName |-> policy_name,
                       PolicyDocument |-> JsonDumps(Policy(bucket_name_list))], resp)
        IN  CASE resp = "ok" ->
                 \E pos \in 1..(Len(policies) + 1) :
                    LET response == PolicyRecord(policy_name)
                    IN  /\ policies' = InsertAt(policies, pos, response)
                        /\ reqs' = <<rq>>
                        /\ call' = Returned(op, args,
                                            <<response.PolicyName, response.Arn>>)
                        /\ firstPair' = [firstPair EXCEPT ![policy_name] =
                                            <<response.PolicyName, response.Arn>>]
              [] resp = "EntityAlreadyExists" ->
                 \E lresp \in {"ok", "AccessDenied"} :
                    LET listing == ListPolicies
                        found == ScanFrom(listing, policy_name, 0)
                        lrq == Req("iam_client", "list_policies", <<>>,
                                   [code |-> lresp,
                                    Policies |-> IF lresp = "ok" THEN listing
                                                 ELSE <<>>])
                    IN  /\ reqs' = <<rq, lrq>>
                        /\ call' = IF lresp # "ok" THEN Raised(op, args, lresp)
                                   ELSE IF found.exc # NoExc
                                   THEN Raised(op, args, found.exc)
                                   ELSE LET response == listing[found.i + 1]
                                        IN  Returned(op, args, <<response.PolicyName,
                                                                 response.Arn>>)
                        /\ UNCHANGED <<policies, firstPair>>
              [] OTHER ->
                 /\ reqs' = <<rq>>
                 /\ call' = Raised(op, args, resp)
                 /\ UNCHANGED <<policies, firstPair>>
    /\ UNCHANGED <<server_id, client, sftp, pc, est, nServers, onlineAt, buckets,
                   roles, lastCreated>>

\* lines 90-102
TrustRelationships(service) ==
    [Version |-> "2012-10-17",
     Statement |-> << [Sid |-> "Permit", Effect |-> "Allow",
                       Principal |-> [Service |-> service \o ".amazonaws.com"],
                       Action |-> "sts:AssumeRole"] >>]

\* the provider's answers to create_role
CreateRoleAnswers(name) ==
    {"AccessDenied"} \cup (IF name \in roles THEN {"EntityAlreadyExists"} ELSE {"ok"})

\* the provider's answers to get_role
GetRoleAnswers(name) ==
    {"AccessDenied"} \cup (IF name \in roles THEN {"ok"} ELSE {"NoSuchEntity"})

\* line 108: the error the handler recovers from
AnyErrorCode(code) == TRUE
IsAlreadyExists(code) == code = "EntityAlreadyExists"

\* lines 115-121: one attachment request per policy ARN; `fails` are the
\* positions whose request the provider answers with a ClientError
AttachUntilFailure(iam_role_name, policies_arn, fails) ==
    LET n == IF fails = {} THEN Len(policies_arn)
             ELSE CHOOSE i \in fails : \A j \in fails : i <= j
    IN  [i \in 1..n |->
            Req("iam_client", "attach_role_policy",
                [RoleName |-> iam_role_name, PolicyArn |-> policies_arn[i]],
                IF i \in fails THEN "ClientError" ELSE "ok")]
AttachRequests(iam_role_name, policies_arn, fails) ==
    [i \in 1..Len(policies_arn) |->
        Req("iam_client", "attach_role_policy",
            [RoleName |-> iam_role_name, PolicyArn |-> policies_arn[i]],
            IF i \in fails THEN "ClientError" ELSE "ok")]

\* policies_arn: None, or a list
NoArns == [none |-> TRUE, v |-> <<>>]
ArnList(s) == [none |-> FALSE, v |-> s]

\* create_role_and_attach_policy, lines 89-125
CreateRoleAndAttachPolicy(service, iam_role_name, policies_arn, fails) ==
    /\ pc = "idle"
    /\ \E resp \in CreateRoleAnswers(iam_role_name) :
        LET op == "create_role_and_attach_policy"
            args == <<service, iam_role_name, policies_arn>>
            rq == Req("iam_client", "create_role",
                      [RoleName |-> iam_role_name,
                       AssumeRolePolicyDocument |->
                           JsonDumps(TrustRelationships(service))], resp)
            role == [RoleName |-> iam_role_name, Arn |-> RoleArn(iam_role_name)]
            attach == IF policies_arn.none THEN <<>>
                      ELSE AttachRequests(iam_role_name, policies_arn.v, fails)
        IN  IF resp = "ok"
            THEN /\ roles' = roles \cup {iam_role_name}
                 /\ reqs' = <<rq>> \o attach
                 /\ call' = Returned(op, args, <<role.RoleName, role.Arn>>)
            ELSE IF IsAlreadyExists(resp)
            THEN \E gresp \in GetRoleAnswers(iam_role_name) :
                    LET grq == Req("iam_client", "get_role",
                                   [RoleName |-> iam_role_name], gresp)
                    IN  /\ UNCHANGED roles
                        /\ IF gresp = "ok"
                           THEN /\ reqs' = <<rq, grq>> \o attach
                                /\ call' = Returned(op, args,
                                                    <<role.RoleName, role.Arn>>)
                           ELSE /\ reqs' = <<rq, grq>>
                                /\ call' = Raised(op, args, gresp)
            ELSE /\ UNCHANGED roles
                 /\ reqs' = <<rq>>
                 /\ call' = Raised(op, args, resp)
    /\ UNCHANGED <<server_id, client, sftp, pc, est, nServers, onlineAt, buckets,
                   policies, lastCreated, firstPair>>

----------------------------------------------------------------------------
(* 4.3 Managed transfer server lifecycle *)

\* line 141: self.server_id after a successful create_server
KeepServerId(old, response_id) == old
CacheServerId(old, response_id) == response_id

\* create_sftp_transfer_server, lines 127-142.  The two branches of
\* custom_config differ only in the request's parameters.
CreateSftpTransferServer(custom, resp) ==
    /\ pc = "idle"
    /\ nServers < MaxServers
    /\ LET new == SrvId(nServers + 1)
           rq == Req("transfer_client", "create_server", custom, resp)
       IN  /\ reqs' = <<rq>>
           /\ IF resp = "ok"
              THEN /\ server_id' = CacheServerId(server_id, new)
                   /\ nServers' = nServers + 1
                   /\ lastCreated' = new
                   /\ call' = Returned("create_sftp_transfer_server", <<custom>>, new)
              ELSE /\ UNCHANGED <<server_id, nServers, lastCreated>>
                   /\ call' = Raised("create_sftp_transfer_server", <<custom>>,
                                     "ClientError")
    /\ UNCHANGED <<client, sftp, pc, est, onlineAt, buckets, policies, roles,
                   firstPair>>

\* lines 146-147: the server the user is created on
ResolveServerId(arg, cached) == IF arg = None THEN cached ELSE arg

\* add_user, lines 144-158
AddUser(sid_arg, resp) ==
    /\ pc = "idle"
    /\ LET sid == ResolveServerId(sid_arg, server_id)
           rq == Req("transfer_client", "create_user",
                     [UserName |-> "user", HomeDirectoryType |-> "LOGICAL",
                      HomeDirectoryMappings |-> "mappings", Role |-> "role-arn",
                      SshPublicKeyBody |-> "public-key", ServerId |-> sid], resp)
       IN  /\ reqs' = <<rq>>
           /\ call' = IF resp = "ok"
                      THEN Returned("add_user", <<sid_arg>>, "response")
                      ELSE Raised("add_user", <<sid_arg>>, "ClientError")
    /\ UNCHANGED <<server_id, client, sftp, pc, est, nServers, onlineAt, buckets,
                   policies, roles, lastCreated, firstPair>>

----------------------------------------------------------------------------
(* 4.4 Secondary-account client and SFTP session *)

\* AWS, lines 160-169: boto3.client(...) becomes self.client
AWS(c) ==
    /\ pc = "idle"
    /\ client' = c
    /\ call' = Returned("AWS", <<c>>, "self")
    /\ reqs' = <<>>
    /\ UNCHANGED <<server_id, sftp, pc, est, nServers, onlineAt, buckets, policies,
                   roles, lastCreated, firstPair>>

\* line 184
Host(sid) == sid \o ".server.transfer.eu-central-1.amazonaws.com"

\* establish_sftp, lines 171-177: the fallbacks and the start request
EstablishSftp(c_arg, sid_arg, resp) ==
    /\ pc = "idle"
    /\ LET sid == IF sid_arg = None THEN server_id ELSE sid_arg
           c == IF c_arg = None THEN client ELSE c_arg
           frame == [EstIdle EXCEPT !.client = c, !.server_id = sid]
       IN  IF c = None
           THEN \* None has no attribute start_server
                /\ est' = frame
                /\ reqs' = <<>>
                /\ call' = Raised("establish_sftp", <<c_arg, sid_arg>>,
                                  "AttributeError")
                /\ UNCHANGED <<pc, onlineAt>>
           ELSE /\ reqs' = <<Req(c, "start_server", sid, resp)>>
                /\ IF resp = "ok"
                   THEN /\ est' = [frame EXCEPT !.started = TRUE]
                        /\ pc' = "l179"
                        /\ onlineAt' \in 1..MaxPolls
                        /\ call' = [Returned("establish_sftp", <<c_arg, sid_arg>>,
                                             None) EXCEPT !.ret = "running"]
                   ELSE /\ est' = frame
                        /\ call' = Raised("establish_sftp", <<c_arg, sid_arg>>,
                                          "ClientError")
                        /\ UNCHANGED <<pc, onlineAt>>
    /\ UNCHANGED <<server_id, client, sftp, nServers, buckets, policies, roles,
                   lastCreated, firstPair>>

\* the provider's answer to the k-th status poll since the server was started
ServerState(k) == IF k >= onlineAt THEN "ONLINE" ELSE "STARTING"

\* client.desrcribe_server(ServerId=server_id)['Server']['State'], lines 179, 181
DescribeStep ==
    IF "desrcribe_server" \in Attrs(est.client)
    THEN LET k == est.polls + 1
         IN  /\ est' = [est EXCEPT !.polls = k, !.server_status = ServerState(k)]
             /\ reqs' = Append(reqs, Req(est.client, "desrcribe_server",
                                         est.server_id, ServerState(k)))
             /\ pc' = "l180"
             /\ UNCHANGED call
    ELSE /\ call' = Raised("establish_sftp", call.args, "AttributeError")
         /\ pc' = "idle"
         /\ UNCHANGED <<est, reqs>>

\* line 179: the first status poll
EstablishFirstPoll ==
    /\ pc = "l179"
    /\ DescribeStep
    /\ UNCHANGED <<server_id, client, sftp, nServers, onlineAt, buckets, policies,
                   roles, lastCreated, firstPair>>

\* line 180: the loop's condition
PollWhileOnline(status) == status = "ONLINE"
KeepPolling(status) == status # "ONLINE"

\* lines 180-181: one more status poll
EstablishPollAgain ==
    /\ pc = "l180"
    /\ KeepPolling(est.server_status)
    /\ DescribeStep
    /\ UNCHANGED <<server_id, client, sftp, nServers, onlineAt, buckets, policies,
                   roles, lastCreated, firstPair>>

\* lines 182-193: the SSH connection and the SFTP channel
EstablishConnect(resp) ==
    /\ pc = "l180"
    /\ ~KeepPolling(est.server_status)
    /\ pc' = "idle"
    /\ IF resp = "ok"
       THEN /\ sftp' = <<Host(est.server_id), "open">>
            /\ est' = [est EXCEPT !.opened = TRUE]
            /\ call' = Returned("establish_sftp", call.args, "self")
       ELSE /\ call' = Raised("establish_sftp", call.args, "SSHException")
            /\ UNCHANGED <<sftp, est>>
    /\ UNCHANGED <<server_id, client, nServers, onlineAt, buckets, policies, roles,
                   lastCreated, firstPair, reqs>>

\* put_file_transfer, lines 195-196
PutFileTransfer ==
    /\ pc = "idle"
    /\ reqs' = <<>>
    /\ call' = IF sftp = <<>>
               THEN Raised("put_file_transfer", <<>>, "AttributeError")
               ELSE IF sftp[2] = "open"
               THEN Returned("put_file_transfer", <<>>, None)
               ELSE Raised("put_file_transfer", <<>>, "OSError")
    /\ UNCHANGED <<server_id, client, sftp, pc, est, nServers, onlineAt, buckets,
                   policies, roles, lastCreated, firstPair>>

\* line 200: the server close_transfer_server stops and the client it uses
StopTarget == [client |-> client, server_id |-> server_id]

\* close_transfer_server, lines 198-201
CloseTransferServer(resp) ==
    /\ pc = "idle"
    /\ est' = [est EXCEPT !.closes = Min(est.closes + 1, 2)]
    /\ IF sftp = <<>>
       THEN \* None has no attribute close
            /\ call' = Raised("close_transfer_server", <<>>, "AttributeError")
            /\ reqs' = <<>>
            /\ UNCHANGED sftp
       ELSE /\ sftp' = <<sftp[1], "closed">>
            /\ IF StopTarget.client = None
               THEN /\ call' = Raised("close_transfer_server", <<>>, "AttributeError")
                    /\ reqs' = <<>>
               ELSE /\ reqs' = <<Req(StopTarget.client, "stop_server",
                                     StopTarget.server_id, resp)>>
                    /\ call' = IF resp = "ok"
                               THEN Returned("close_transfer_server", <<>>, None)
                               ELSE Raised("close_transfer_server", <<>>,
                                           "ClientError")
    /\ UNCHANGED <<server_id, client, pc, nServers, onlineAt, buckets, policies,
                   roles, lastCreated, firstPair>>

----------------------------------------------------------------------------
NextTransfer ==
    \/ \E custom \in BOOLEAN, resp \in Answers : CreateSftpTransferServer(custom, resp)
    \/ \E sid \in ServerIds \cup {None}, resp \in Answers : AddUser(sid, resp)
    \/ \E c \in Clients : AWS(c)
    \/ \E c \in Clients \cup {None}, sid \in ServerIds \cup {None},
          resp \in Answers : EstablishSftp(c, sid, resp)
    \/ EstablishFirstPoll
    \/ EstablishPollAgain
    \/ \E resp \in {"ok", "SSHException"} : EstablishConnect(resp)
    \/ PutFileTransfer
    \/ \E resp \in Answers : CloseTransferServer(resp)

\* the bucket operations, among the calls that set the instance's fields
NextS3 ==
    \/ \E b \in BucketNames, resp \in Answers : CreateBucket(b, resp)
    \/ \E resp \in Answers : ListBuckets(resp)
    \/ \E b \in BucketNames, resp \in Answers : DeleteBucket(b, resp)
    \/ \E custom \in BOOLEAN, resp \in Answers : CreateSftpTransferServer(custom, resp)
    \/ \E c \in Clients : AWS(c)
    \/ \E c \in Clients \cup {None}, sid \in ServerIds \cup {None},
          resp \in Answers : EstablishSftp(c, sid, resp)
    \/ EstablishFirstPoll
    \/ EstablishPollAgain
    \/ \E resp \in {"ok", "SSHException"} : EstablishConnect(resp)

ArnPool == {PolicyArn("policy-1"), PolicyArn("policy-2")}
ArnInputs == {NoArns} \cup {ArnList(s) : s \in SeqsUpTo(ArnPool, MaxArns)}

\* the policy provisioning calls
NextPolicy ==
    \E bl \in SeqsUpTo(BucketNames, MaxBuckets), name \in PolicyNames :
        CreateIamS3AccessPolicy(bl, name)

\* the role provisioning calls
NextRole ==
    \E name \in RoleNames, arns \in ArnInputs :
        \E fails \in SUBSET (1..Len(arns.v)) :
            CreateRoleAndAttachPolicy("transfer", name, arns, fails)

SpecPolicy == Init /\ [][NextPolicy]_vars

SpecRole == Init /\ [][NextRole]_vars

SpecS3 == Init /\ [][NextS3]_vars

SpecTransfer == Init /\ [][NextTransfer]_vars

\* Every call the class offers.  The bucket, policy and role methods neither
\* read nor assign an instance field and each talks to a store of its own, so
\* the properties are checked under the component specifications above.
Next == NextS3 \/ NextPolicy \/ NextRole \/ NextTransfer

Spec == Init /\ [][Next]_vars

----------------------------------------------------------------------------
(* The claims. *)

\* C1: once create_sftp_transfer_server has succeeded, add_user with no
\* explicit server_id sends create_user with the id the latest successful
\* create_sftp_transfer_server returned (a failed one changes nothing); with
\* an explicit server_id it sends that one.
C1_AddUserServerId ==
    (call.op = "add_user" /\ lastCreated # None) =>
        /\ Len(reqs) = 1
        /\ reqs[1].api = "create_user"
        /\ reqs[1].arg.ServerId =
              IF call.args[1] = None THEN lastCreated ELSE call.args[1]

C1_Witness ==
    /\ call.op = "add_user"
    /\ call.args[1] = None
    /\ nServers = MaxServers
    /\ lastCreated = SrvId(MaxServers)
    /\ reqs[1].arg.ServerId = SrvId(MaxServers)

\* C2: establish_sftp run with the provider's client, the provider reporting
\* ONLINE from its N-th status poll on, leaves the loop after exactly N polls
\* and completes without raising (a failure of the SSH connection aside).
C2_CompletesAtNthPoll ==
    (/\ call.op = "establish_sftp"
     /\ pc = "idle"
     /\ est.started
     /\ Attrs(est.client) = TransferApi
     /\ call.exc # "SSHException") =>
        /\ call.exc = NoExc
        /\ est.polls = onlineAt
        /\ est.server_status = "ONLINE"

\* C3: in establish_sftp the start request comes first, then the status
\* polls, and the SFTP channel is opened only after a status poll returned
\* ONLINE: the channel of a call is never open while the last status that call
\* observed is not ONLINE.
C3_OpenOnlyAfterOnline ==
    /\ pc \in {"l179", "l180"} => est.started
    /\ est.polls > 0 => est.started
    /\ est.opened =>
          /\ est.started
          /\ est.polls >= 1
          /\ est.server_status = "ONLINE"
    /\ call.op = "establish_sftp" =>
          /\ \A i \in 1..Len(reqs) :
                reqs[i].api = IF i = 1 THEN "start_server" ELSE "desrcribe_server"
          /\ est.started => Len(reqs) = 1 + est.polls
          /\ call.ret = "self" =>
                /\ est.opened
                /\ sftp = <<Host(est.server_id), "open">>
                /\ Len(reqs) >= 2
                /\ reqs[Len(reqs)].resp = "ONLINE"

C3_Witness ==
    /\ call.op = "establish_sftp"
    /\ call.ret = "self"
    /\ est.opened
    /\ est.polls = 2
    /\ sftp # <<>>

\* C4: create_iam_s3_access_policy called again with a name it created, the
\* provider answering 'already exists', returns the pair the first call
\* returned, which is the pair of the entry of that name in the listing the
\* provider returns, wherever in the listing the entry sits.
C4_SecondCreateSamePair ==
    (/\ call.op = "create_iam_s3_access_policy"
     /\ reqs[1].resp = "EntityAlreadyExists"
     /\ reqs[2].resp.code = "ok"
     /\ \E i \in 1..Len(reqs[2].resp.Policies) :
           reqs[2].resp.Policies[i].PolicyName = call.args[2]) =>
        /\ call.exc = NoExc
        /\ call.ret = firstPair[call.args[2]]
        /\ \E i \in 1..Len(reqs[2].resp.Policies) :
              /\ reqs[2].resp.Policies[i].PolicyName = call.args[2]
              /\ call.ret = <<reqs[2].resp.Policies[i].PolicyName,
                              reqs[2].resp.Policies[i].Arn>>

C4_Witness ==
    /\ call.op = "create_iam_s3_access_policy"
    /\ reqs[1].resp = "EntityAlreadyExists"
    /\ reqs[2].resp.code = "ok"
    /\ Len(reqs[2].resp.Policies) = 2
    /\ reqs[2].resp.Policies[2].PolicyName = call.args[2]
    /\ call.ret = firstPair[call.args[2]]

\* C5: create_bucket never propagates a provider error: it returns True
\* exactly when the provider's create_bucket succeeded and False exactly when
\* it raised a ClientError, and leaves server_id, client and sftp unchanged.
C5_CreateBucketSwallows ==
    [][(\E b \in BucketNames, resp \in Answers : CreateBucket(b, resp)) =>
          /\ call'.exc = NoExc
          /\ call'.ret = (reqs'[1].resp = "ok")
          /\ UNCHANGED fields]_vars

C5_Witness ==
    /\ call.op = "create_bucket"
    /\ call.ret = FALSE
    /\ reqs[1].resp = "ClientError"
    /\ server_id # None
    /\ client # None
    /\ sftp # <<>>

\* C6: in create_role_and_attach_policy a create_role error other than
\* 'already exists' is propagated and no attachment is attempted; on
\* 'already exists' that error is not propagated, the role is fetched by name
\* and its name and ARN are returned.
C6_CreateRoleErrors ==
    call.op = "create_role_and_attach_policy" =>
        /\ reqs[1].api = "create_role"
        /\ reqs[1].resp \notin {"ok", "EntityAlreadyExists"} =>
              /\ call.exc = reqs[1].resp
              /\ Len(reqs) = 1
        /\ reqs[1].resp = "EntityAlreadyExists" =>
              /\ call.exc # "EntityAlreadyExists"
              /\ Len(reqs) >= 2
              /\ reqs[2].api = "get_role"
              /\ reqs[2].arg.RoleName = call.args[2]
              /\ reqs[2].resp = "ok" =>
                    /\ call.exc = NoExc
                    /\ call.ret = <<call.args[2], RoleArn(call.args[2])>>

C6_Witness ==
    /\ call.op = "create_role_and_attach_policy"
    /\ reqs[1].resp = "EntityAlreadyExists"
    /\ reqs[2].resp = "ok"
    /\ call.exc = NoExc
    /\ call.ret = <<"role-a", RoleArn("role-a")>>

\* C7: once the role is created or fetched, create_role_and_attach_policy
\* issues one attachment request per policy ARN of the list, in list order,
\* whichever of them fail; no failure is raised and the role's name and ARN
\* are returned.
C7_AttachesEveryArn ==
    (/\ call.op = "create_role_and_attach_policy"
     /\ \/ reqs[1].resp = "ok"
        \/ reqs[1].resp = "EntityAlreadyExists" /\ reqs[2].resp = "ok") =>
        LET k == IF reqs[1].resp = "ok" THEN 1 ELSE 2
            arns == call.args[3]
        IN  /\ call.exc = NoExc
            /\ call.ret = <<call.args[2], RoleArn(call.args[2])>>
            /\ Len(reqs) = k + Len(arns.v)
            /\ \A i \in 1..Len(arns.v) :
                  /\ reqs[k + i].api = "attach_role_policy"
                  /\ reqs[k + i].arg = [RoleName |-> call.args[2],
                                        PolicyArn |-> arns.v[i]]

C7_Witness ==
    /\ call.op = "create_role_and_attach_policy"
    /\ call.exc = NoExc
    /\ Len(reqs) = 3
    /\ reqs[2].api = "attach_role_policy"
    /\ reqs[2].resp = "ClientError"
    /\ reqs[3].api = "attach_role_policy"
    /\ reqs[3].arg.PolicyArn # reqs[2].arg.PolicyArn

\* C8: list_buckets, given a provider response listing two named buckets,
\* returns exactly those two names (the Name of every bucket record of the
\* response) in the order of the response.
C8_ListBucketsReturnsNames ==
    (call.op = "list_buckets" /\ reqs[1].resp = "ok" /\ Len(buckets) = 2) =>
        /\ call.exc = NoExc
        /\ call.ret = buckets

\* C9: the policy document create_iam_s3_access_policy sends has as its
\* first statement's resources 'arn:aws:s3:::<b>' and as its second
\* statement's 'arn:aws:s3:::<b>/*', one per bucket b, in input order.
C9_PolicyResources ==
    call.op = "create_iam_s3_access_policy" =>
        LET bl == call.args[1]
            doc == reqs[1].arg.PolicyDocument.json
            r1 == doc.Statement[1].Resource
            r2 == doc.Statement[2].Resource
        IN  /\ reqs[1].api = "create_policy"
            /\ Len(doc.Statement) = 2
            /\ Len(r1) = Len(bl)
            /\ Len(r2) = Len(bl)
            /\ \A i \in 1..Len(bl) :
                  /\ r1[i] = "arn:aws:s3:::" \o bl[i]
                  /\ r2[i] = "arn:aws:s3:::" \o bl[i] \o "/*"
            /\ bl = <<"b1", "b2">> =>
                  /\ r1 = <<"arn:aws:s3:::b1", "arn:aws:s3:::b2">>
                  /\ r2 = <<"arn:aws:s3:::b1/*", "arn:aws:s3:::b2/*">>

C9_Witness ==
    /\ call.op = "create_iam_s3_access_policy"
    /\ call.args[1] = <<"b1", "b2">>
    /\ reqs[1].resp = "ok"

\* C10: after a successful establish_sftp the next close_transfer_server
\* sends stop_server for the server id, and through the client, that
\* establish_sftp used, whether they were the cached ones or explicit ones.
C10_CloseStopsEstablishedServer ==
    (call.op = "close_transfer_server" /\ est.opened /\ est.closes = 1) =>
        /\ Len(reqs) = 1
        /\ reqs[1].api = "stop_server"
        /\ reqs[1].client = est.client
        /\ reqs[1].arg = est.server_id

====
